---- MODULE Spec2Model ----
(***************************************************************************)
(* yagpy: the ghtoporgrepos command (src/src/yagpy/top_org_repos.py) and   *)
(* the paginated GitHub access it uses (src/src/yagpy/yagpy.py).           *)
(*                                                                         *)
(* The module models                                                       *)
(*   - _SizeConstrainedMaxHeap: __init__, push, pop, __bool__, with        *)
(*     heapq.heappush / heapq.heappop computed as CPython computes them;   *)
(*   - GitHub.paginate and its two consumers OrgRepos.list_all_sources and *)
(*     RepoPulls.list_all, one action per HTTP request;                    *)
(*   - the four _get_top_*_repos generators and get_top_repos.             *)
(* A behaviour is either a direct use of the selector class (pc "api...")  *)
(* or one run of the command line tool (pc "parse" .. "exit").             *)
(***************************************************************************)
EXTENDS Integers, Sequences, FiniteSets, TLC

VARIABLES
    pc,          \* position of the program
    heap,        \* _SizeConstrainedMaxHeap._heap (Python list, index 0 first)
    max_items,   \* _SizeConstrainedMaxHeap._max_items: None or <<k>>
    ops,         \* history: the pushes and the successful pops, in order
    err,         \* exception raised by the last operation, "none" if none
    action,      \* parsed_args.action
    py,          \* major version of the interpreter running the tool (2 or 3)
    next_page,   \* paginate's next_page of the outer (repository) listing
    page,        \* items of the current outer page not yet consumed
    repo,        \* the repository whose pull requests are being counted
    pull_next,   \* paginate's next_page of the inner (pull request) listing
    num_pulls,   \* running sum(1 for _ in ...list_all()) of the inner listing
    requests,    \* history: HTTP GET requests issued, in order
    yielded,     \* history: pages yielded by the outer paginate generator
    seen,        \* history: repository records yielded by list_all_sources
    output,      \* lines printed to the output file
    exit_status, \* process exit status: "running", 0 or non-zero
    sessions     \* state of the _http_session of every GitHub object created

vars == <<pc, heap, max_items, ops, err, action, py, next_page,
          page, repo, pull_next, num_pulls, requests, yielded, seen, output,
          exit_status, sessions>>

query == <<action, py, next_page, page, repo, pull_next, num_pulls, requests,
           yielded, seen, output, exit_status, sessions>>

----------------------------------------------------------------------------
(* Bounds of the model *)

\* largest bound tried for max_items / --max
MaxK == 2
\* most pushes made on a directly used selector
MaxPushes == 4
\* most repositories the organization listing returns
MaxRepos == 3

----------------------------------------------------------------------------
(* Values *)

\* Python's None for max_items; an integer k is <<k>>
None == <<>>
Some(k) == <<k>>

\* A sort key: the integer n (d = 1, f = FALSE) or the float n/d (f = TRUE)
IntKey(n) == [n |-> n, d |-> 1, f |-> FALSE]
FloatKey(n, d) == [n |-> n, d |-> d, f |-> TRUE]

KeyLt(a, b) == a.n * b.d < b.n * a.d
KeyEq(a, b) == a.n * b.d = b.n * a.d

\* Repository names, ordered as Python orders the strings
Names == {"A", "B", "C", "D"}
NameOrd(s) == CASE s = "A" -> 1 [] s = "B" -> 2 [] s = "C" -> 3 [] s = "D" -> 4

\* A heap item is the tuple (key, name); Python compares tuples
\* lexicographically: the first elements that differ decide.
Value(k, name) == [key |-> k, name |-> name]
\* a comparison of the keys alone
TupleGt_keyonly(a, b) == KeyLt(b.key, a.key)

\* self.value > other.value on the tuples (key, name)
TupleGt(a, b) ==
    IF KeyEq(a.key, b.key) THEN NameOrd(a.name) > NameOrd(b.name)
    ELSE KeyLt(b.key, a.key)

\* __lt__ with the comparison not inverted (return self.value < other.value)
WrapperLt_plain(a, b) == TupleGt(b, a)

\* InvertedComparisonWrapper.__lt__: return self.value > other.value
WrapperLt(a, b) == TupleGt(a, b)

----------------------------------------------------------------------------
(* heapq on a Python list; positions are 0-based as in the source *)

At(h, i) == h[i + 1]
Set(h, i, v) == [h EXCEPT ![i + 1] = v]

RECURSIVE SiftDownLoop(_, _, _, _)
SiftDownLoop(h, startpos, pos, newitem) ==
    IF pos > startpos
    THEN LET parentpos == (pos - 1) \div 2
             parent == At(h, parentpos)
         IN  IF WrapperLt(newitem, parent)
             THEN SiftDownLoop(Set(h, pos, parent), startpos, parentpos, newitem)
             ELSE Set(h, pos, newitem)
    ELSE Set(h, pos, newitem)

\* heapq._siftdown(heap, startpos, pos)
siftdown(h, startpos, pos) == SiftDownLoop(h, startpos, pos, At(h, pos))

RECURSIVE SiftUpLoop(_, _, _, _)
SiftUpLoop(h, startpos, pos, newitem) ==
    LET endpos == Len(h)
        leftpos == 2 * pos + 1
        rightpos == leftpos + 1
        childpos == IF rightpos < endpos
                       /\ ~WrapperLt(At(h, leftpos), At(h, rightpos))
                    THEN rightpos ELSE leftpos
    IN  IF leftpos < endpos
        THEN SiftUpLoop(Set(h, pos, At(h, childpos)), startpos, childpos, newitem)
        ELSE siftdown(Set(h, pos, newitem), startpos, pos)

\* heapq._siftup(heap, pos)
siftup(h, pos) == SiftUpLoop(h, pos, pos, At(h, pos))

\* a push that appends without sifting
heappush_nosift(h, item) == Append(h, item)

\* heapq.heappush(heap, item)
heappush(h, item) == siftdown(Append(h, item), 0, Len(h))

\* heapq.heappop(heap) on a non-empty list: the item returned and the list left
heappop(h) ==
    LET lastelt == h[Len(h)]
        rest == SubSeq(h, 1, Len(h) - 1)
    IN  IF rest # <<>>
        THEN [item |-> rest[1], heap |-> siftup(Set(rest, 0, lastelt), 0)]
        ELSE [item |-> lastelt, heap |-> rest]

----------------------------------------------------------------------------
(* _SizeConstrainedMaxHeap *)

\* the truncation off by one: del self._heap[self._max_items + 1:]
Truncate_keepone(h, k) == SubSeq(h, 1, k + 1)

\* del self._heap[self._max_items:]
Truncate(h, k) == SubSeq(h, 1, k)

\* push testing "if self._max_items:" in place of "is not None"
PushHeap_truthy(h, m, item) ==
    LET h1 == heappush(h, item)
    IN  IF m # None /\ m[1] # 0 /\ Len(h1) > m[1] THEN Truncate(h1, m[1]) ELSE h1

\* push(item): the list after the push
PushHeap(h, m, item) ==
    LET h1 == heappush(h, item)
    IN  IF m # None /\ Len(h1) > m[1] THEN Truncate(h1, m[1]) ELSE h1

\* __bool__
HeapBool(h) == h # <<>>

\* for v in vs: heap.push(v), on a selector with list h and bound m
RECURSIVE PushAll(_, _, _)
PushAll(h, m, vs) ==
    IF vs = <<>> THEN h ELSE PushAll(PushHeap(h, m, Head(vs)), m, Tail(vs))

\* while heap: heap.pop(), the values popped in order
RECURSIVE DrainAll(_)
DrainAll(h) ==
    IF HeapBool(h) THEN <<heappop(h).item>> \o DrainAll(heappop(h).heap)
    ELSE <<>>

----------------------------------------------------------------------------
(* The history of a selector *)

PushOp(v) == [op |-> "push", value |-> v]
PopOp(v) == [op |-> "pop", value |-> v]

IsPush(o) == o.op = "push"
IsPop(o) == o.op = "pop"

RECURSIVE Values(_)
Values(s) == IF s = <<>> THEN <<>> ELSE <<Head(s).value>> \o Values(Tail(s))

\* every value handed to push so far, in order
Pushed == Values(SelectSeq(ops, IsPush))

\* every value returned by pop so far, in order
Popped == Values(SelectSeq(ops, IsPop))

\* position of the last push in ops, 0 if there is none
LastPush ==
    IF \E i \in 1..Len(ops) : IsPush(ops[i])
    THEN CHOOSE i \in 1..Len(ops) :
             IsPush(ops[i]) /\ \A j \in (i + 1)..Len(ops) : IsPop(ops[j])
    ELSE 0

\* the values returned by the pops made since the last push
Drained == Values(SubSeq(ops, LastPush + 1, Len(ops)))

----------------------------------------------------------------------------
(* Direct use of the selector class *)

\* Arguments tried for _SizeConstrainedMaxHeap(max_items)
CtorArgs == {None} \cup {Some(k) : k \in -1..MaxK}

\* Candidates pushed by a direct user: integer keys; a value may be pushed
\* more than once, which gives candidates with equal keys
ApiValues ==
    {Value(IntKey(10), "A"), Value(IntKey(50), "A"), Value(IntKey(90), "A")}

\* a constructor that does not validate max_items
Construct_unchecked(m) ==
    /\ pc = "api_new"
    /\ max_items' = m
    /\ heap' = <<>>
    /\ err' = "none"
    /\ pc' = "api"
    /\ UNCHANGED <<ops, query>>

\* _SizeConstrainedMaxHeap.__init__
Construct(m) ==
    /\ pc = "api_new"
    /\ IF m # None /\ m[1] < 0
       THEN /\ err' = "ValueError"
            /\ pc' = "api_failed"
            /\ UNCHANGED <<heap, max_items>>
       ELSE /\ max_items' = m
            /\ heap' = <<>>
            /\ err' = "none"
            /\ pc' = "api"
    /\ UNCHANGED <<ops, query>>

\* _SizeConstrainedMaxHeap.push
ApiPush(item) ==
    /\ pc = "api"
    /\ Len(Pushed) < MaxPushes
    /\ heap' = PushHeap(heap, max_items, item)
    /\ ops' = Append(ops, PushOp(item))
    /\ err' = "none"
    /\ UNCHANGED <<pc, max_items, query>>

\* pop with an emptiness guard that raises ValueError, as __init__ does
ApiPop_valueerror ==
    /\ pc = "api"
    /\ IF heap = <<>>
       THEN /\ err' = "ValueError"
            /\ UNCHANGED <<heap, ops>>
       ELSE /\ heap' = heappop(heap).heap
            /\ ops' = Append(ops, PopOp(heappop(heap).item))
            /\ err' = "none"
    /\ UNCHANGED <<pc, max_items, query>>

\* _SizeConstrainedMaxHeap.pop: heapq.heappop raises IndexError on an empty list
ApiPop ==
    /\ pc = "api"
    /\ IF heap = <<>>
       THEN /\ err' = "IndexError"
            /\ UNCHANGED <<heap, ops>>
       ELSE /\ heap' = heappop(heap).heap
            /\ ops' = Append(ops, PopOp(heappop(heap).item))
            /\ err' = "none"
    /\ UNCHANGED <<pc, max_items, query>>

----------------------------------------------------------------------------
(* The remote API as the tool sees it *)

\* The organization's source repositories: name -> the fields the tool reads
stargazers_count(name) ==
    CASE name = "A" -> 50 [] name = "B" -> 10 [] name = "C" -> 90 [] name = "D" -> 50
forks_count(name) ==
    CASE name = "A" -> 0 [] name = "B" -> 0 [] name = "C" -> 8 [] name = "D" -> 4
RepoRecord(name) ==
    [name |-> name,
     stargazers_count |-> stargazers_count(name),
     forks_count |-> forks_count(name)]

RECURSIVE NamesOf(_)
NamesOf(s) == IF s = <<>> THEN {} ELSE {Head(s).name} \cup NamesOf(Tail(s))

\* Bodies the server may send for a page of the repository listing once the
\* repositories in `sofar` were listed: one or two repositories not listed
\* yet, MaxRepos in all; the empty page ends the listing.
RepoPages(sofar) ==
    LET left == Names \ NamesOf(sofar)
        room == MaxRepos - Len(sofar)
    IN  {<<>>}
        \cup {<<RepoRecord(a)>> : a \in {x \in left : room >= 1}}
        \cup {<<RepoRecord(a[1]), RepoRecord(a[2])>> :
                 a \in {x \in left \X left : x[1] # x[2] /\ room >= 2}}

\* Bodies the server may send for page number n of the pull request listing
\* of repository `name`: four pull requests, or none, which ends the listing;
\* A has no pull request, B at most one page of them, C and D at most two.
pull_pages(name) ==
    CASE name = "A" -> 0 [] name = "B" -> 1 [] name = "C" -> 2 [] name = "D" -> 2
      [] OTHER -> 0
PullPageSizes == {0, 4}
PullPage(k) == [i \in 1..k |-> [pull |-> i]]
PullPages(name, n) ==
    {PullPage(k) : k \in {x \in PullPageSizes : x = 0 \/ n <= pull_pages(name)}}

\* A response: status code, X-RateLimit-Remaining header, decoded body
Ok(body) == [status |-> 200, remaining |-> "absent", body |-> body]
Failures ==
    {[status |-> 403, remaining |-> "0", body |-> <<>>],
     [status |-> 403, remaining |-> "17", body |-> <<>>],
     [status |-> 403, remaining |-> "absent", body |-> <<>>],
     [status |-> 404, remaining |-> "0", body |-> <<>>]}

\* a classification that takes every 403 for a rate limit, whatever the header
Raised_any403(resp) ==
    IF resp.status >= 400
    THEN IF resp.status = 403 THEN "RateLimitExceeded" ELSE "HTTPError"
    ELSE "none"

\* GitHub.paginate: what one request raises; "none" when the page is yielded
Raised(resp) ==
    IF resp.status >= 400
    THEN IF resp.status = 403 /\ resp.remaining # "absent" /\ resp.remaining = "0"
         THEN "RateLimitExceeded"
         ELSE "HTTPError"
    ELSE "none"

\* a page counter that skips every other page
NextPage_skip(n) == n + 2

\* GitHub.paginate: next_page += 1
NextPage(n) == n + 1

\* a consumer that never breaks
EndOfListing_never(body) == FALSE

\* list_all_sources / list_all: if not num_items_rx: break
EndOfListing(body) == Len(body) = 0

Request(list, name, n) == [list |-> list, repo |-> name, page |-> n]
Yield(list, name, n, body) ==
    [list |-> list, repo |-> name, page |-> n, body |-> body]

----------------------------------------------------------------------------
(* The command line tool *)

Actions == {"stars", "forks", "pulls", "contrib-ratio"}

\* Command lines tried: ACTION ORGANIZATION [--max MAX] [--basic-auth AUTH],
\* possibly with an option the parser does not know. Under Python 2 only
\* contrib-ratio is run: no other action executes a statement that depends on
\* the interpreter version.
CmdLines ==
    [action : Actions, org : {"", "nodejs"}, max : -1..MaxK,
     auth : {"u:p", "u", "u:"}, unknown : BOOLEAN]

\* num_pulls / repo['forks_count']: floor division of ints under Python 2,
\* true division under Python 3
Ratio(n, d) == IF py = 2 THEN IntKey(n \div d) ELSE FloatKey(n, d)

\* '{}:{}'.format(name, key): an int prints its digits, a float its integral
\* part, a point and its decimals (here: thousandths, exact for the model's
\* denominators)
Format(name, k) ==
    IF k.f
    THEN [name |-> name, int |-> k.n \div k.d, point |-> TRUE,
          frac |-> ((k.n % k.d) * 1000) \div k.d]
    ELSE [name |-> name, int |-> k.n, point |-> FALSE, frac |-> 0]

\* an except clause that goes on to the drain instead of exiting
Abort_swallowed(error) ==
    /\ err' = error
    /\ pc' = "drain"
    /\ UNCHANGED exit_status

\* get_top_repos: except Exception as error: sys.exit(error). The exception
\* leaves every generator and the process exits with status 1.
Abort(error) ==
    /\ err' = error
    /\ exit_status' = 1
    /\ pc' = "exit"

\* GitHub.__init__: self._http_session = requests.Session()
GitHub(created) == Append(created, "open")

\* a parser that accepts a negative --max
parser_error_nomax(args) ==
    args.unknown \/ args.org = "" \/ args.auth = "u"

\* get_top_repos: the command lines that end in parser.error: an option
\* argparse does not know, an empty ORGANIZATION, a negative --max, a
\* --basic-auth without a colon
parser_error(args) ==
    args.unknown \/ args.org = "" \/ args.max < 0 \/ args.auth = "u"

\* get_top_repos: parse the command line, build the credentials, start the
\* generator of the action (which constructs the selector)
Parse(args) ==
    /\ pc = "parse"
    /\ py = 2 => args.action = "contrib-ratio"
    /\ IF parser_error(args)
       THEN \* argparse prints the usage and calls sys.exit(2)
            /\ err' = "SystemExit"
            /\ exit_status' = 2
            /\ pc' = "exit"
            /\ UNCHANGED <<heap, max_items, action, next_page, sessions>>
       ELSE IF args.auth = "u:"
       THEN \* GitHubBasicAuthCredentials raises ValueError
            /\ Abort("ValueError")
            /\ UNCHANGED <<heap, max_items, action, next_page, sessions>>
       ELSE /\ action' = args.action
            /\ max_items' = Some(args.max)
            /\ heap' = <<>>
            /\ next_page' = 1
            /\ sessions' = GitHub(sessions)
            /\ err' = "none"
            /\ pc' = "list"
            /\ UNCHANGED exit_status
    /\ UNCHANGED <<ops, py, page, repo, pull_next, num_pulls, requests,
                   yielded, seen, output>>

\* a scan that goes to the drain at the end of every page
AfterItem_drain(rest) == IF rest = <<>> THEN "drain" ELSE "item"

\* where the for loop over list_all_sources() continues after an item
AfterItem(rest) == IF rest = <<>> THEN "list" ELSE "item"

\* One iteration of paginate's loop for the repository listing, up to the
\* yield, and what list_all_sources does with the page
ListRequest(resp) ==
    /\ pc = "list"
    /\ requests' = Append(requests, Request("repos", "", next_page))
    /\ next_page' = NextPage(next_page)
    /\ IF Raised(resp) # "none"
       THEN /\ Abort(Raised(resp))
            /\ UNCHANGED <<page, yielded>>
       ELSE /\ yielded' = Append(yielded, Yield("repos", "", next_page, resp.body))
            /\ page' = resp.body
            /\ pc' = IF EndOfListing(resp.body) THEN "drain"
                     ELSE AfterItem(resp.body)
            /\ UNCHANGED <<err, exit_status>>
    /\ UNCHANGED <<heap, max_items, ops, action, py, repo, pull_next,
                   num_pulls, seen, output,
                   sessions>>

\* heap.push(value) made by a generator
PushStep(value) ==
    /\ heap' = PushHeap(heap, max_items, value)
    /\ ops' = Append(ops, PushOp(value))

\* _get_top_star_repos: the body of the for loop
StarsItem ==
    /\ pc = "item"
    /\ action = "stars"
    /\ LET item == Head(page)
       IN  /\ seen' = Append(seen, item)
           /\ PushStep(Value(IntKey(item.stargazers_count), item.name))
    /\ page' = Tail(page)
    /\ pc' = AfterItem(Tail(page))
    /\ UNCHANGED <<max_items, err, action, py, next_page, repo, pull_next,
                   num_pulls, requests, yielded, output, exit_status,
                   sessions>>

\* _get_top_fork_repos: the body of the for loop
ForksItem ==
    /\ pc = "item"
    /\ action = "forks"
    /\ LET item == Head(page)
       IN  /\ seen' = Append(seen, item)
           /\ PushStep(Value(IntKey(item.forks_count), item.name))
    /\ page' = Tail(page)
    /\ pc' = AfterItem(Tail(page))
    /\ UNCHANGED <<max_items, err, action, py, next_page, repo, pull_next,
                   num_pulls, requests, yielded, output, exit_status,
                   sessions>>

\* a loop body that goes on to the next repository without counting
PullsItem_uncounted ==
    /\ pc = "item"
    /\ action = "pulls"
    /\ seen' = Append(seen, Head(page))
    /\ page' = Tail(page)
    /\ pc' = AfterItem(Tail(page))
    /\ UNCHANGED <<heap, max_items, ops, err, action, py, next_page, repo,
                   pull_next, num_pulls, requests, yielded, output,
                   exit_status, sessions>>

\* _get_top_pull_request_repos: the for loop takes a repository and starts
\* counting its pull requests
PullsItem ==
    /\ pc = "item"
    /\ action = "pulls"
    /\ seen' = Append(seen, Head(page))
    /\ repo' = Head(page)
    /\ page' = Tail(page)
    /\ pull_next' = 1
    /\ num_pulls' = 0
    /\ pc' = "pulls"
    /\ UNCHANGED <<heap, max_items, ops, err, action, py, next_page,
                   requests, yielded, output, exit_status,
                   sessions>>

\* a filter that skips no repository
HasForks_any(item) == TRUE

\* _get_top_contribution_ratio_repos: if repo['forks_count']:
HasForks(item) == item.forks_count # 0

\* _get_top_contribution_ratio_repos: the for loop takes a repository; one
\* without forks is skipped
ContribItem ==
    /\ pc = "item"
    /\ action = "contrib-ratio"
    /\ seen' = Append(seen, Head(page))
    /\ page' = Tail(page)
    /\ IF HasForks(Head(page))
       THEN /\ repo' = Head(page)
            /\ pull_next' = 1
            /\ num_pulls' = 0
            /\ pc' = "pulls"
       ELSE /\ pc' = AfterItem(Tail(page))
            /\ UNCHANGED <<repo, pull_next, num_pulls>>
    /\ UNCHANGED <<heap, max_items, ops, err, action, py, next_page,
                   requests, yielded, output, exit_status,
                   sessions>>

\* a count that takes the terminating page for a pull request
PullsKey_plusone ==
    IF action = "pulls" THEN IntKey(num_pulls + 1)
    ELSE Ratio(num_pulls + 1, repo.forks_count)

\* the key pushed once the pull requests of `repo` are counted
PullsKey ==
    IF action = "pulls" THEN IntKey(num_pulls)
    ELSE Ratio(num_pulls, repo.forks_count)

\* One iteration of paginate's loop for the pull request listing of `repo`,
\* what RepoPulls.list_all does with the page, and the sum(...) around it
PullsRequest(resp) ==
    /\ pc = "pulls"
    /\ requests' = Append(requests, Request("pulls", repo.name, pull_next))
    /\ pull_next' = NextPage(pull_next)
    /\ IF Raised(resp) # "none"
       THEN /\ Abort(Raised(resp))
            /\ UNCHANGED <<heap, ops, num_pulls, yielded>>
       ELSE /\ yielded' = Append(yielded,
                                 Yield("pulls", repo.name, pull_next, resp.body))
            /\ UNCHANGED <<err, exit_status>>
            /\ IF EndOfListing(resp.body)
               THEN /\ PushStep(Value(PullsKey, repo.name))
                    /\ pc' = AfterItem(page)
                    /\ UNCHANGED num_pulls
               ELSE /\ num_pulls' = num_pulls + Len(resp.body)
                    /\ UNCHANGED <<heap, ops, pc>>
    /\ UNCHANGED <<max_items, action, py, next_page, page, repo, seen, output,
                   sessions>>

\* while heap: ... = heap.pop(); yield '{}:{}'.format(name, key), and the
\* print of get_top_repos; the generator ends when the heap is empty
Drain ==
    /\ pc = "drain"
    /\ IF HeapBool(heap)
       THEN /\ heap' = heappop(heap).heap
            /\ ops' = Append(ops, PopOp(heappop(heap).item))
            /\ output' = Append(output, Format(heappop(heap).item.name,
                                                heappop(heap).item.key))
            /\ UNCHANGED <<pc, exit_status>>
       ELSE /\ pc' = "exit"
            /\ exit_status' = 0
            /\ UNCHANGED <<heap, ops, output>>
    /\ UNCHANGED <<max_items, err, action, py, next_page, page, repo,
                   pull_next, num_pulls, requests, yielded, seen,
                   sessions>>

----------------------------------------------------------------------------
(* The specification *)

NoRepo == [name |-> "", stargazers_count |-> 0, forks_count |-> 0]

Init ==
    /\ \/ pc = "api_new" /\ py = 3
       \/ pc = "parse" /\ py \in {2, 3}
    /\ heap = <<>>
    /\ max_items = None
    /\ ops = <<>>
    /\ err = "none"
    /\ action = "none"
    /\ next_page = 1
    /\ page = <<>>
    /\ repo = NoRepo
    /\ pull_next = 1
    /\ num_pulls = 0
    /\ requests = <<>>
    /\ yielded = <<>>
    /\ seen = <<>>
    /\ output = <<>>
    /\ exit_status = "running"
    /\ sessions = <<>>

\* One step of the program. The position is tested before the inputs of a
\* step are enumerated; every action tests it again.
Next ==
    \/ pc = "api_new" /\ \E m \in CtorArgs : Construct(m)
    \/ pc = "api" /\ \E item \in ApiValues : ApiPush(item)
    \/ ApiPop
    \/ pc = "parse" /\ \E args \in CmdLines : Parse(args)
    \/ pc = "list" /\ \E body \in RepoPages(seen) : ListRequest(Ok(body))
    \/ pc = "list" /\ \E resp \in Failures : ListRequest(resp)
    \/ StarsItem
    \/ ForksItem
    \/ PullsItem
    \/ ContribItem
    \/ pc = "pulls" /\ \E body \in PullPages(repo.name, pull_next) :
                          PullsRequest(Ok(body))
    \/ pc = "pulls" /\ \E resp \in Failures : PullsRequest(resp)
    \/ Drain

Spec == Init /\ [][Next]_vars

----------------------------------------------------------------------------
(* Helpers of the properties *)

Min(a, b) == IF a < b THEN a ELSE b
Range(s) == {s[i] : i \in DOMAIN s}
Count(s, v) == Cardinality({i \in DOMAIN s : s[i] = v})

\* a selector exists: constructed directly or by a running query
Constructed == pc \in {"api", "list", "item", "pulls", "drain"}
Finished == pc = "exit" /\ exit_status = 0

\* the bound as a number; None bounds nothing
Bound(n) == IF max_items = None THEN n ELSE Min(max_items[1], n)

\* the number an output line shows after the colon, in thousandths
LineKey(line) == line.int * 1000 + line.frac

\* repositories of the listing that the action turns into candidates
Candidates ==
    IF action = "contrib-ratio" THEN SelectSeq(seen, HasForks) ELSE seen

----------------------------------------------------------------------------
(* C1: as long as nothing was popped, a bounded selector retains, of all the
   candidates pushed, min(k, pushed) candidates with the largest keys: it
   retains only candidates that were pushed, and no candidate it discarded
   has a larger key than one it retains. *)
C1_TopK ==
    (Constructed /\ Popped = <<>>) =>
        LET all == Pushed
        IN  /\ \A v \in Range(heap) : Count(heap, v) <= Count(all, v)
            /\ Len(heap) = Bound(Len(all))
            /\ \A d \in Range(all) : \A h \in Range(heap) :
                   Count(all, d) > Count(heap, d) => ~KeyLt(h.key, d.key)

(* C2: a selector never holds more than its bound; as long as nothing was
   popped it holds min(k, pushes) candidates, all of them without a bound;
   a query that ends normally has written min(--max, candidates) lines. *)
C2_Size ==
    /\ max_items # None => Len(heap) <= max_items[1]
    /\ (Constructed /\ Popped = <<>>) => Len(heap) = Bound(Len(Pushed))
    /\ Finished => Len(output) = Min(max_items[1], Len(Candidates))

C2_Witness ==
    /\ Finished
    /\ max_items = Some(2)
    /\ Len(Pushed) = 3
    /\ Len(output) = 2

(* C3: every pop returns a candidate that no retained candidate exceeds: the
   root of the list is its largest element, the values popped since the last
   push are in non-increasing key order and none is smaller than a candidate
   still retained; without a bound the candidates popped and retained are
   those pushed; the lines of a query are its pops, in non-increasing order
   of the number they show. *)
C3_PopLargest ==
    LET dr == Drained
    IN  /\ \A j \in DOMAIN heap : ~TupleGt(heap[j], heap[1])
        /\ \A i \in DOMAIN dr : \A j \in DOMAIN dr :
               i < j => ~KeyLt(dr[i].key, dr[j].key) /\ ~TupleGt(dr[j], dr[i])
        /\ \A i \in DOMAIN dr : \A j \in DOMAIN heap : ~TupleGt(heap[j], dr[i])
        /\ (Constructed /\ max_items = None) =>
               \A v \in Range(Pushed) :
                   Count(Pushed, v) = Count(heap, v) + Count(Popped, v)
        /\ pc \in {"drain", "exit"} =>
               /\ Len(output) = Len(Popped)
               /\ \A i \in DOMAIN output :
                      output[i] = Format(Popped[i].name, Popped[i].key)
               /\ \A i \in DOMAIN output : \A j \in DOMAIN output :
                      i < j => LineKey(output[i]) >= LineKey(output[j])

C3_Witness ==
    /\ pc = "api"
    /\ heap = <<>>
    /\ Len(Drained) = 4
    /\ KeyEq(Drained[2].key, Drained[3].key)
    /\ KeyLt(Drained[4].key, Drained[1].key)

(* C4: the stars action with --max 2 on an organization that lists A (50
   stars), B (10) and C (90), in any order, prints C:90 and then A:50. *)
C4_StarsTop2 ==
    (Finished /\ action = "stars" /\ max_items = Some(2)
        /\ NamesOf(seen) = {"A", "B", "C"}) =>
        output = <<Format("C", IntKey(90)), Format("A", IntKey(50))>>

(* C5 as stated: paginate yields only the non-empty pages: no page it yields
   is empty. *)
C5_NoEmptyPageYielded ==
    \A i \in DOMAIN yielded : yielded[i].body # <<>>

SameListing(a, b) == a.list = b.list /\ a.repo = b.repo

(* C5 as amended: paginate yields every page it receives, in the order of
   the requests and the empty page included; a listing that was read to its
   end ends with the empty page yielded; the pages of a listing are numbered
   from 1 without a gap, only the last one yielded can be empty, and after
   the empty page of a listing no further page of it is requested. *)
C5_YieldsUpToEmptyPage ==
    /\ Len(yielded) <= Len(requests)
    /\ Len(requests) <= Len(yielded) + 1
    /\ Len(requests) = Len(yielded) + 1 => pc = "exit" /\ exit_status = 1
    /\ \A i \in DOMAIN yielded :
           /\ SameListing(yielded[i], requests[i])
           /\ yielded[i].page = requests[i].page
           /\ yielded[i].body = <<>> =>
                  \A j \in DOMAIN requests :
                      j > i => ~SameListing(requests[j], requests[i])
    /\ \A j \in DOMAIN requests :
           requests[j].page =
               1 + Cardinality({i \in 1..(j - 1) :
                                   SameListing(requests[i], requests[j])})
    /\ (pc = "drain" \/ Finished) =>
           /\ yielded # <<>>
           /\ yielded[Len(yielded)].list = "repos"
           /\ yielded[Len(yielded)].body = <<>>

C5_Witness ==
    /\ Finished
    /\ Len(yielded) = 3
    /\ Len(requests) = 3
    /\ yielded[1].body # <<>>
    /\ yielded[2].body # <<>>
    /\ yielded[3].body = <<>>
    /\ \A i \in 1..3 : yielded[i].list = "repos" /\ yielded[i].page = i

\* every response a request of the model can receive
Responses ==
    Failures \cup {Ok(b) : b \in RepoPages(seen)}
             \cup {Ok(b) : b \in PullPages(repo.name, pull_next)}

(* C6: a page request raises RateLimitExceeded exactly when its response has
   status 403 and an X-RateLimit-Remaining header equal to "0"; any other
   failure status raises the generic HTTPError; a request that raises yields
   no page, pushes nothing, and is the last request of the run. *)
C6_RateLimit ==
    /\ [](pc = "exit" => ~ENABLED Next)
    /\ [][\A resp \in Responses :
             (ListRequest(resp) \/ PullsRequest(resp)) =>
                /\ (err' = "RateLimitExceeded") <=>
                       (resp.status = 403 /\ resp.remaining = "0")
                /\ (err' = "HTTPError") <=>
                       (resp.status # 200
                           /\ ~(resp.status = 403 /\ resp.remaining = "0"))
                /\ resp.status # 200 =>
                       /\ yielded' = yielded
                       /\ ops' = ops
                       /\ pc' = "exit"]_vars

C6_Witness ==
    /\ err = "RateLimitExceeded"
    /\ pc = "exit"
    /\ Len(requests) = 3
    /\ requests[3].list = "pulls"
    /\ Len(yielded) = 2

(* C7: in a contrib-ratio query a repository whose forks_count is 0 is never
   counted, never pushed and never printed. *)
C7_NoForksNoCandidate ==
    action = "contrib-ratio" =>
        /\ pc = "pulls" => repo.forks_count # 0
        /\ \A i \in DOMAIN requests :
               requests[i].list = "pulls" => forks_count(requests[i].repo) # 0
        /\ \A i \in DOMAIN ops : forks_count(ops[i].value.name) # 0
        /\ \A i \in DOMAIN heap : forks_count(heap[i].name) # 0
        /\ \A i \in DOMAIN output : forks_count(output[i].name) # 0

C7_Witness ==
    /\ action = "contrib-ratio"
    /\ Finished
    /\ max_items = Some(2)
    /\ Len(seen) = 3
    /\ seen[1].forks_count = 0
    /\ seen[2].forks_count # 0
    /\ seen[3].forks_count = 0
    /\ Len(output) = 1

(* C8: a pop on an empty selector raises IndexError, returns nothing and
   leaves the selector empty, with its bound, and usable: the push that
   follows leaves what it leaves on a new selector, and IndexError is only
   ever reported by an empty selector. *)
C8_PopEmpty ==
    /\ [](err = "IndexError" => pc = "api" /\ heap = <<>>)
    /\ [][(pc = "api" /\ heap = <<>> /\ Len(ops') = Len(ops)) =>
             /\ err' = "IndexError"
             /\ heap' = <<>>
             /\ ops' = ops
             /\ max_items' = max_items
             /\ pc' = "api"]_vars
    /\ [][(err = "IndexError" /\ Len(ops') > Len(ops)) =>
             /\ err' = "none"
             /\ IsPush(ops'[Len(ops')])
             /\ heap' = PushAll(<<>>, max_items, <<ops'[Len(ops')].value>>)
             /\ Len(heap') = Bound(1)]_vars

C8_Witness ==
    /\ err = "IndexError"
    /\ max_items = Some(2)
    /\ Len(Pushed) = 3
    /\ Len(Popped) = 2

(* C9: a selector constructed with max_items = 0 is empty after every push:
   nothing is ever popped from it and a query run with --max 0 prints no
   line. *)
C9_ZeroBound ==
    max_items = Some(0) =>
        /\ heap = <<>>
        /\ Popped = <<>>
        /\ output = <<>>
        /\ DrainAll(heap) = <<>>

C9_Witness ==
    /\ max_items = Some(0)
    /\ Finished
    /\ Len(Pushed) = 3

\* the orders in which the values of a sequence can be pushed
Orders(s) ==
    {[i \in DOMAIN s |-> s[f[i]]] :
        f \in {g \in [DOMAIN s -> DOMAIN s] :
                  \A i \in DOMAIN s : \A j \in DOMAIN s : g[i] = g[j] => i = j}}

DistinctKeys(s) ==
    \A i \in DOMAIN s : \A j \in DOMAIN s : i # j => ~KeyEq(s[i].key, s[j].key)

(* C10: when the candidates pushed have pairwise distinct keys, pushing them
   in any other order into a selector with the same bound gives the same
   drain: the drain does not depend on the order of the pushes. *)
C10_OrderIndependent ==
    (Constructed /\ Popped = <<>> /\ DistinctKeys(Pushed)) =>
        \A p \in Orders(Pushed) :
            DrainAll(PushAll(<<>>, max_items, p)) = DrainAll(heap)

\* a page request of the query raised
RequestFailed == err \in {"RateLimitExceeded", "HTTPError"}

\* a query was started: the command line was accepted
QueryStarted == action # "none"

(* C11: a failing page request, of the repository listing or of a pull
   request listing, rate limit or not, ends the run: it is the last request,
   nothing is popped or printed, no step follows, and the exit status is 1;
   a query that ends without a failed request ends with status 0. *)
C11_FailureAborts ==
    /\ RequestFailed =>
           /\ pc = "exit"
           /\ exit_status = 1
           /\ Len(requests) = Len(yielded) + 1
           /\ Popped = <<>>
           /\ output = <<>>
           /\ ~ENABLED Next
    /\ (QueryStarted /\ pc = "exit" /\ ~RequestFailed) => exit_status = 0
    /\ Finished => err = "none" /\ Len(requests) = Len(yielded)

C11_Witness ==
    /\ err = "HTTPError"
    /\ exit_status = 1
    /\ Len(requests) = 4
    /\ requests[4].list = "pulls"
    /\ Len(heap) = 1
    /\ Len(page) = 1

(* C12: a query creates one HTTP session, and when the query has ended,
   normally or by a failed request, that session is closed. *)
C12_SessionClosed ==
    /\ QueryStarted => Len(sessions) = 1
    /\ (QueryStarted /\ pc = "exit") =>
           \A i \in DOMAIN sessions : sessions[i] = "closed"

(* C13: _SizeConstrainedMaxHeap(max_items) raises ValueError for a negative
   max_items and then no selector exists: nothing can be pushed or popped;
   None and every integer >= 0 are accepted and stored, the selector starts
   empty; no selector has a negative bound, and a selector without a bound
   holds every candidate pushed that was not popped. *)
C13_Construct ==
    /\ pc = "api_new" =>
           \A m \in CtorArgs :
               IF m # None /\ m[1] < 0
               THEN /\ ENABLED (Construct(m) /\ pc' = "api_failed"
                                  /\ err' = "ValueError")
                    /\ ~ENABLED (Construct(m) /\ pc' = "api")
               ELSE /\ ENABLED (Construct(m) /\ pc' = "api" /\ err' = "none"
                                  /\ max_items' = m /\ heap' = <<>>)
                    /\ ~ENABLED (Construct(m) /\ pc' # "api")
    /\ pc = "api_failed" =>
           /\ err = "ValueError"
           /\ heap = <<>>
           /\ ops = <<>>
           /\ ~ENABLED Next
    /\ Constructed => (max_items = None \/ max_items[1] >= 0)
    /\ (Constructed /\ max_items = None) =>
           /\ Len(heap) + Len(Popped) = Len(Pushed)
           /\ \A v \in Range(Pushed) :
                  Count(heap, v) + Count(Popped, v) = Count(Pushed, v)

C13_Witness ==
    /\ pc = "api_failed"
    /\ err = "ValueError"
    /\ heap = <<>>

\* the pull request records on the pages yielded so far for repository `name`
RECURSIVE PullRecords(_, _)
PullRecords(ys, name) ==
    IF ys = <<>> THEN 0
    ELSE (IF Head(ys).list = "pulls" /\ Head(ys).repo = name
          THEN Len(Head(ys).body) ELSE 0)
         + PullRecords(Tail(ys), name)

(* C14: a contrib-ratio query (with a bound of at least 1) on an
   organization whose repositories have no forks, except D with 4 forks and
   8 pull requests, prints exactly one line, D:2.0. *)
C14_ContribRatioD ==
    (Finished /\ action = "contrib-ratio" /\ max_items[1] >= 1
        /\ "D" \in NamesOf(seen)
        /\ (\A r \in Range(seen) : r.name # "D" => r.forks_count = 0)
        /\ PullRecords(yielded, "D") = 8) =>
        output = <<Format("D", FloatKey(8, 4))>>

\* the command lines the interpreter of this run is given
CmdLinesRun == {args \in CmdLines : py = 2 => args.action = "contrib-ratio"}

(* C15: a command line with an unknown option, a negative --max or a
   --basic-auth without a colon (or an empty organization) makes the tool
   exit with a non-zero status without having created a selector or a
   session, printed a line or issued a request; a run that ended before a
   query started has a non-zero status, no output and no request. *)
C15_BadCommandLine ==
    /\ pc = "parse" =>
           \A args \in CmdLinesRun :
               (args.unknown \/ args.max < 0 \/ args.auth = "u"
                   \/ args.org = "") =>
                   /\ ENABLED Parse(args)
                   /\ ~ENABLED (Parse(args)
                                  /\ ~(/\ pc' = "exit"
                                       /\ exit_status' = 2
                                       /\ err' = "SystemExit"
                                       /\ action' = "none"
                                       /\ output' = <<>>
                                       /\ requests' = <<>>
                                       /\ sessions' = <<>>))
    /\ (pc = "exit" /\ ~QueryStarted) =>
           /\ exit_status # 0
           /\ output = <<>>
           /\ requests = <<>>
           /\ sessions = <<>>
           /\ ~ENABLED Next

C15_Witness ==
    /\ pc = "exit"
    /\ err = "SystemExit"
    /\ exit_status = 2
    /\ output = <<>>
    /\ requests = <<>>

\* the listings a query reads: the repositories of the organization and the
\* pull requests of each repository
Listings ==
    {[list |-> "repos", repo |-> ""]}
        \cup {[list |-> "pulls", repo |-> n] : n \in Names}

\* the entries of a history that belong to listing l
OfListing(hist, l) ==
    SelectSeq(hist, LAMBDA r : r.list = l.list /\ r.repo = l.repo)

\* the items of the pages of a history, in page order and within-page order
RECURSIVE Items(_)
Items(ys) == IF ys = <<>> THEN <<>> ELSE Head(ys).body \o Items(Tail(ys))

(* C16: the requests of every listing are for the pages 1, 2, 3, ... in this
   order, one request per page; the pages yielded are those requested; an
   empty page is the last page of its listing that is requested, and
   receiving it raises nothing; the repositories list_all_sources has
   yielded and will yield from the current page are the items of the pages
   received, in page order and within-page order, and the pull requests
   list_all has yielded for the repository being counted are as many as the
   pages received for it hold. *)
C16_PagesInOrder ==
    /\ \A l \in {x \in Listings : \E i \in DOMAIN requests :
                                      SameListing(x, requests[i])} :
           LET rq == OfListing(requests, l)
               ys == OfListing(yielded, l)
           IN  /\ \A i \in DOMAIN rq : rq[i].page = i
               /\ \A i \in DOMAIN ys : ys[i].page = i
               /\ Len(ys) <= Len(rq)
               /\ \A i \in DOMAIN ys :
                      ys[i].body = <<>> => i = Len(ys) /\ i = Len(rq)
    /\ (yielded # <<>> /\ Len(requests) = Len(yielded)
           /\ yielded[Len(yielded)].body = <<>>) => err = "none"
    /\ QueryStarted =>
           Items(OfListing(yielded, [list |-> "repos", repo |-> ""]))
               = seen \o page
    /\ pc = "pulls" =>
           num_pulls = Len(Items(OfListing(yielded,
                                           [list |-> "pulls",
                                            repo |-> repo.name])))

C16_Witness ==
    /\ Finished
    /\ action = "pulls"
    /\ Len(OfListing(requests, [list |-> "repos", repo |-> ""])) = 3
    /\ Len(OfListing(requests, [list |-> "pulls", repo |-> "C"])) = 3
    /\ Len(OfListing(requests, [list |-> "pulls", repo |-> "A"])) = 1
    /\ Len(seen) = 3

\* the step is a page request or a push
ScanStep ==
    /\ Next
    /\ \/ Len(requests') > Len(requests)
       \/ Len(ops') > Len(ops) /\ IsPush(ops'[Len(ops')])

(* C17: in a query every push precedes every pop and every request precedes
   the first line printed: something is popped or printed only in the drain,
   which starts after the repository listing has delivered its empty page
   and every request was answered; once the drain has started no request
   and no push follows; no candidate is popped twice and the drain ends
   with the selector empty; a query with a failed request has printed
   nothing. *)
C17_ScanThenDrain ==
    QueryStarted =>
        LET po == Popped
            pu == Pushed
        IN  /\ ops = SelectSeq(ops, IsPush) \o SelectSeq(ops, IsPop)
            /\ Len(output) = Len(po)
            /\ (po # <<>> \/ pc = "drain" \/ Finished) =>
                   /\ pc \in {"drain", "exit"}
                   /\ Len(requests) = Len(yielded)
                   /\ yielded[Len(yielded)].list = "repos"
                   /\ yielded[Len(yielded)].body = <<>>
                   /\ page = <<>>
            /\ pc = "drain" => ~ENABLED ScanStep
            /\ Finished => heap = <<>> /\ ~ENABLED Next
            /\ \A v \in Range(po) : Count(po, v) <= Count(pu, v)
            /\ RequestFailed => output = <<>> /\ po = <<>>

C17_Witness ==
    /\ Finished
    /\ action = "pulls"
    /\ Len(requests) >= 5
    /\ Len(Pushed) = 3
    /\ Len(output) = 2

\* the pages yielded so far of the pull request listing of repository `name`
PullsOf(name) == OfListing(yielded, [list |-> "pulls", repo |-> name])

\* the pull request listing of repository `name` was read to its empty page
PullsEnded(name) ==
    LET ys == PullsOf(name) IN ys # <<>> /\ ys[Len(ys)].body = <<>>

(* C18: in a pulls query the candidates are pushed in listing order, one per
   repository whose pull request listing was read to its empty page, and
   the key of each is the number of pull request records on the pages of
   that listing, all of which precede the empty page. *)
C18_PullsKey ==
    action = "pulls" =>
        LET pu == Pushed
        IN  /\ Len(pu) = Cardinality({n \in Names : PullsEnded(n)})
            /\ Len(pu) <= Len(seen)
            /\ \A i \in DOMAIN pu :
                   LET ys == PullsOf(pu[i].name)
                   IN  /\ pu[i].name = seen[i].name
                       /\ ys # <<>>
                       /\ pu[i].key = IntKey(Len(Items(ys)))
                       /\ \A j \in DOMAIN ys :
                              ys[j].body = <<>> <=> j = Len(ys)

C18_Witness ==
    /\ action = "pulls"
    /\ Len(Pushed) = 3
    /\ \E i \in 1..3 : Pushed[i] = Value(IntKey(8), "C")
    /\ \E i \in 1..3 : Pushed[i] = Value(IntKey(4), "B")
    /\ \E i \in 1..3 : Pushed[i] = Value(IntKey(0), "A")

(* C19 as stated: the lines of a query are in strictly descending key order:
   every line has a key strictly smaller than the line before it, also when
   repositories share a key. *)
C19_StrictlyDescending ==
    QueryStarted =>
        \A i \in DOMAIN Popped : \A j \in DOMAIN Popped :
            i < j => KeyLt(Popped[j].key, Popped[i].key)

(* C19 as amended: the lines of a query are in non-increasing key order: no
   line has a key larger than the line before it; repositories that share a
   key are all printed, with equal keys, in descending order of their
   names; the number a line shows is the key popped. *)
C19_Descending ==
    QueryStarted =>
        /\ \A i \in DOMAIN Popped : \A j \in DOMAIN Popped :
               i < j =>
                  /\ ~KeyLt(Popped[i].key, Popped[j].key)
                  /\ KeyEq(Popped[i].key, Popped[j].key) =>
                         NameOrd(Popped[i].name) > NameOrd(Popped[j].name)
        /\ \A i \in DOMAIN output :
               /\ output[i].name = Popped[i].name
               /\ LineKey(output[i]) * Popped[i].key.d
                      = 1000 * Popped[i].key.n

C19_Witness ==
    /\ Finished
    /\ action = "stars"
    /\ Len(output) = 2
    /\ output[1].name = "D"
    /\ output[2].name = "A"
    /\ LineKey(output[1]) = LineKey(output[2])

\* the action counts the pull requests of this repository
Counted(item) == action = "pulls" \/ item.forks_count # 0

\* position of the repository `name` in the listing
Position(name) == CHOOSE i \in DOMAIN seen : seen[i].name = name

\* request number m is the one answered by the empty page of the pull
\* request listing of repository `name`
EndsPulls(m, name) ==
    /\ m \in DOMAIN yielded
    /\ requests[m].list = "pulls"
    /\ requests[m].repo = name
    /\ yielded[m].body = <<>>

\* the last request before request j that is of the listing of request i
LastOf(i, j) ==
    CHOOSE m \in i..(j - 1) :
        /\ SameListing(requests[m], requests[i])
        /\ \A n \in (m + 1)..(j - 1) : ~SameListing(requests[n], requests[i])

\* the last request of a page of the repository listing before request j > 1
PageBefore(j) ==
    CHOOSE k \in 1..(j - 1) :
        /\ requests[k].list = "repos"
        /\ \A n \in (k + 1)..(j - 1) : requests[n].list # "repos"

(* C20: in a pulls or contrib-ratio query the requests of the pull request
   listing of one repository are consecutive, the listings are read in the
   order in which the repositories were listed, a listing is read to its
   empty page before any other request is issued, and a page of the
   repository listing is requested only when the pull request listing of
   every repository of the pages before it, that the action counts, was
   read to its empty page. *)
C20_SubQueriesInSequence ==
    action \in {"pulls", "contrib-ratio"} =>
        /\ \A i \in DOMAIN requests :
               requests[i].list = "pulls" =>
                   /\ requests[i].repo \in NamesOf(seen)
                   /\ Counted(seen[Position(requests[i].repo)])
                   /\ \A j \in (i + 1)..Len(requests) :
                          ~SameListing(requests[i], requests[j]) =>
                              /\ EndsPulls(LastOf(i, j), requests[i].repo)
                              /\ requests[j].list = "pulls" =>
                                     Position(requests[i].repo)
                                         < Position(requests[j].repo)
        /\ \A j \in DOMAIN requests :
               (requests[j].list = "repos" /\ j > 1) =>
                   \A x \in DOMAIN yielded[PageBefore(j)].body :
                       LET r == yielded[PageBefore(j)].body[x]
                       IN  Counted(r) =>
                               \E m \in (PageBefore(j) + 1)..(j - 1) :
                                   EndsPulls(m, r.name)

C20_Witness ==
    /\ action = "pulls"
    /\ Len(requests) = 7
    /\ Len(yielded) = 7
    /\ Len(yielded[1].body) = 2
    /\ requests[2].list = "pulls"
    /\ requests[3].list = "pulls"
    /\ requests[4].list = "pulls"
    /\ requests[4].repo # requests[3].repo
    /\ requests[6].list = "repos"
    /\ requests[7].list = "pulls"

\* the list is a heap for heapq under the wrapper's comparison: no element
\* is smaller than its parent (positions 0-based: parent of i is (i-1)/2)
IsHeap(h) ==
    \A i \in 1..(Len(h) - 1) : ~WrapperLt(At(h, i), At(h, (i - 1) \div 2))

\* the selector has no bound or a bound of at least 1
KeepsOne == max_items = None \/ max_items[1] >= 1

\* position in ops of the first pop, 0 when nothing was popped
FirstPop ==
    IF Popped = <<>> THEN 0
    ELSE CHOOSE i \in DOMAIN ops :
             IsPop(ops[i]) /\ \A j \in 1..(i - 1) : IsPush(ops[j])

(* C21: on a selector with a bound of at least 1 or without a bound, once
   something was pushed and as long as nothing was popped, the root of the
   list is a candidate that was pushed and no candidate ever pushed has a
   larger key; the first pop returns such a candidate and so does the first
   line of a query; the list is always a valid heap, and the truncation of
   a push keeps the root of the list and leaves a valid heap. *)
C21_MaxRetained ==
    /\ Constructed => IsHeap(heap)
    /\ (Constructed /\ KeepsOne /\ Popped = <<>> /\ Pushed # <<>>) =>
           /\ heap # <<>>
           /\ heap[1] \in Range(Pushed)
           /\ \A v \in Range(Pushed) : ~KeyLt(heap[1].key, v.key)
           /\ heappop(heap).item = heap[1]
    /\ (Constructed /\ KeepsOne /\ Popped # <<>>) =>
           \A j \in 1..(FirstPop - 1) :
               ~KeyLt(ops[FirstPop].value.key, ops[j].value.key)
    /\ (QueryStarted /\ KeepsOne /\ output # <<>>) =>
           /\ output[1] = Format(Popped[1].name, Popped[1].key)
           /\ \A v \in Range(Pushed) : ~KeyLt(Popped[1].key, v.key)
    /\ (Constructed /\ max_items # None /\ KeepsOne) =>
           \A item \in ApiValues :
               LET h1 == heappush(heap, item)
                   h2 == Truncate(h1, max_items[1])
               IN  Len(heap) >= max_items[1] =>
                       /\ h2 # <<>>
                       /\ h2[1] = h1[1]
                       /\ IsHeap(h2)
                       /\ PushHeap(heap, max_items, item) = h2

C21_Witness ==
    /\ pc = "api"
    /\ max_items = Some(2)
    /\ Popped = <<>>
    /\ Len(Pushed) = 4
    /\ Pushed[1].key = IntKey(50)
    /\ Pushed[2].key = IntKey(10)
    /\ Pushed[4].key = IntKey(90)
    /\ Len(heap) = 2
    /\ heap[1].key = IntKey(90)

====
